---- MODULE Spec2Model ----
(***************************************************************************)
(* A model of the block editor surface                                     *)
(* packages/@sanity/form-builder/src/inputs/BlockEditor/Editor.js:         *)
(* the lifecycle hooks that track the focus path, the change, paste, copy, *)
(* drag and key handlers given to the rich-text engine, and the marker     *)
(* attachment of renderNode.                                               *)
(*                                                                         *)
(* The props of the component are the state; every handler is one action   *)
(* that records, in order, the calls it makes to its collaborators         *)
(* (onLoading, onPatch, next, scrollIntoView, ...) in fx.trace.            *)
(***************************************************************************)
EXTENDS Integers, Sequences, FiniteSets, TLC

VARIABLES
  focusPath,      \* props.focusPath: the value of the path
  focusRef,       \* the identity of the props.focusPath array
  editorValue,    \* props.editorValue
  fullscreen,     \* props.fullscreen
  markers,        \* props.markers
  onPasteProp,    \* props.onPaste is set
  parts,          \* the optional parts onPasteFromPart and onCopy
  value,          \* props.value: the persisted blocks
  editorRef,      \* this._editor.current is set
  decorators,     \* props.blockContentFeatures.decorators
  loading,        \* the host's loading state: the last onLoading signal
  fx              \* what the last handler did

vars == <<focusPath, focusRef, editorValue, fullscreen, markers, onPasteProp,
          parts, value, editorRef, decorators, loading, fx>>

\* ----------------------------------------------------------------- bounds

\* How many identities the focusPath array can have.
MaxRef == 2
\* How many markers props.markers holds at most.
MaxMarkers == 2
\* How many decorators the registry of decorators holds at most.
MaxDecorators == 2

\* ------------------------------------------------------------------ paths

\* A path segment {_key: k}.
Key(k) == [kind |-> "key", v |-> k]
\* A path segment that is a field name.
Field(f) == [kind |-> "field", v |-> f]
\* What indexing past the end of an array gives.
Undefined == [kind |-> "undefined", v |-> ""]

\* path[i], with the source's indices (from 0).
At(path, i) == IF i + 1 <= Len(path) THEN path[i + 1] ELSE Undefined

\* What reading _key gives where there is none: undefined, the key of no node.
NoKey == ""

\* seg._key: the key of a segment {_key: k}, and undefined for a field name.
KeyOf(seg) == IF seg.kind = "key" THEN seg.v ELSE NoKey

\* JavaScript's truthiness of a path segment.
Truthy(seg) == seg.kind = "key" \/ (seg.kind = "field" /\ seg.v # "")

\* A path as the program holds it: an array, with its identity and its segments.
\* Identity 0 is that of an array literal made on the spot.
PathArray(ref, val) == [ref |-> ref, val |-> val]

\* A comparison of two path arrays by identity, as p === q does.
isEqual_SameArray(p, q) == p.ref = q.ref

\* lodash's isEqual on two paths: equality of the values, whatever the arrays.
isEqual(p, q) ==
  /\ Len(p.val) = Len(q.val)
  /\ \A i \in 1..Len(p.val) : p.val[i].kind = q.val[i].kind /\ p.val[i].v = q.val[i].v

\* ------------------------------------------------------------- documents

NoNode == [key |-> "", object |-> "none", type |-> "", dkey |-> "",
           annotations |-> <<>>, nodes |-> <<>>]

Text(k) == [key |-> k, object |-> "text", type |-> "", dkey |-> "",
            annotations |-> <<>>, nodes |-> <<>>]

\* A span: an inline of type span, whose data holds _key and annotations.
SpanNode(k, anns, t) ==
  [key |-> k, object |-> "inline", type |-> "span", dkey |-> k,
   annotations |-> anns, nodes |-> <<Text(t)>>]

InlineNode(k, ty, t) ==
  [key |-> k, object |-> "inline", type |-> ty, dkey |-> k,
   annotations |-> <<>>, nodes |-> <<Text(t)>>]

ContentBlockNode(k, children) ==
  [key |-> k, object |-> "block", type |-> "contentBlock", dkey |-> k,
   annotations |-> <<>>, nodes |-> children]

BlockObjectNode(k, ty, t) ==
  [key |-> k, object |-> "block", type |-> ty, dkey |-> k,
   annotations |-> <<>>, nodes |-> <<Text(t)>>]

DocumentNode(blocks) ==
  [key |-> "doc", object |-> "document", type |-> "", dkey |-> "",
   annotations |-> <<>>, nodes |-> blocks]

\* An entry of a span's data.annotations: the annotation's name and its _key.
Ann(n, k) == [name |-> n, _key |-> k]

\* B1 holds a span carrying annotation a1 and an inline object; B3 is a block object.
DocA ==
  DocumentNode(<<
    ContentBlockNode("B1", <<SpanNode("s1", <<Ann("link", "a1")>>, "t1"),
                             InlineNode("i1", "author", "t2")>>),
    ContentBlockNode("B2", <<SpanNode("s2", <<>>, "t3")>>),
    BlockObjectNode("B3", "image", "t4")>>)

\* No span carries a1, and the inline object i1 lives under B2.
DocB ==
  DocumentNode(<<
    ContentBlockNode("B1", <<SpanNode("s1", <<>>, "t1")>>),
    ContentBlockNode("B2", <<SpanNode("s2", <<Ann("link", "a2")>>, "t3"),
                             InlineNode("i1", "author", "t2")>>)>>)

\* Two spans of B2 carry annotations, one of them two with the same key.
DocC ==
  DocumentNode(<<
    ContentBlockNode("B2", <<SpanNode("s2", <<Ann("link", "a1"), Ann("note", "a1")>>, "t3"),
                             SpanNode("s1", <<Ann("link", "a2")>>, "t1")>>)>>)

Docs == {DocA, DocB, DocC}

\* The children of node n, as a set.
Children(n) == {n.nodes[i] : i \in 1..Len(n.nodes)}

\* The descendants of a document, in the order of a depth-first walk:
\* documents are three levels deep (block, inline, text).
RECURSIVE Flatten(_)
Flatten(ns) ==
  IF ns = <<>> THEN <<>>
  ELSE <<ns[1]>> \o Flatten(ns[1].nodes) \o Flatten(Tail(ns))

Descendants(n) == Flatten(n.nodes)

\* Slate's node.getDescendant(key): the descendant with that key, or null.
getDescendant(n, key) ==
  LET ds == Descendants(n)
      hit == {i \in 1..Len(ds) : ds[i].key = key}
  IN IF hit = {} THEN NoNode
     ELSE ds[CHOOSE i \in hit : \A j \in hit : i <= j]

\* Slate's document.getParent(key): the node whose child has that key, or null.
getParent(doc, key) ==
  LET all == <<doc>> \o Descendants(doc)
      hit == {i \in 1..Len(all) : \E c \in Children(all[i]) : c.key = key}
  IN IF hit = {} THEN NoNode
     ELSE all[CHOOSE i \in hit : \A j \in hit : i <= j]

\* Whether a span's data.annotations holds an annotation with that _key.
CarriesAnnotation(span, key) ==
  \E i \in 1..Len(span.annotations) : span.annotations[i]._key = key

\* utils/findInlineByAnnotationKey called without a block: it walks the
\* descendants of the block it is given, so on null it fails with a TypeError.
findInlineByAnnotationKeyThrows(block) == block = NoNode

\* utils/findInlineByAnnotationKey: the first span under the block that carries
\* the annotation, or nothing.
findInlineByAnnotationKey(key, block) ==
  LET ds == Descendants(block)
      hit == {i \in 1..Len(ds) : ds[i].type = "span" /\ CarriesAnnotation(ds[i], key)}
  IN IF hit = {} THEN NoNode
     ELSE ds[CHOOSE i \in hit : \A j \in hit : i <= j]

\* ---------------------------------------------------------- editor values

\* The selection of an editor value whose focus is in the text node t of doc:
\* focusBlock and focusInline are the closest block and inline around it.
SelectionAt(doc, t) ==
  LET parent == getParent(doc, t.key)
      inline == IF parent.object = "inline" THEN parent ELSE NoNode
      block == IF parent.object = "block" THEN parent ELSE getParent(doc, parent.key)
  IN [document |-> doc, focusBlock |-> block, focusInline |-> inline,
      focusText |-> t, focusKey |-> t.key]

\* An editor value without a selection.
Unselected(doc) ==
  [document |-> doc, focusBlock |-> NoNode, focusInline |-> NoNode,
   focusText |-> NoNode, focusKey |-> ""]

\* The text nodes of a document.
TextsOf(doc) ==
  LET ds == Descendants(doc)
  IN {ds[i] : i \in {j \in 1..Len(ds) : ds[j].object = "text"}}

EditorValues ==
  {Unselected(d) : d \in Docs}
  \cup UNION {{SelectionAt(d, t) : t \in TextsOf(d)} : d \in Docs}

\* ---------------------------------------------------------------- effects

\* One call a handler makes to a collaborator: the callee, a string argument,
\* the operations of a patch event, and a path argument.
Eff(op, sig, ops, path) == [op |-> op, sig |-> sig, ops |-> ops, path |-> path]

\* The outcome of running a piece of a handler: the calls made, in order, the
\* error thrown (or ""), and what was returned.
Outcome(trace, thrown, ret) == [trace |-> trace, thrown |-> thrown, ret |-> ret]

\* scrollIntoView(node): findDOMNode(node).scrollIntoView(...)
scrollIntoView(node) == <<Eff("scrollIntoView", node.key, <<>>, <<>>)>>

\* ------------------------------------------------------- focus tracking

\* this.getEditor(): the engine's instance once the ref is set, else null.
getEditor(ref) == ref

\* The inline object branch without its throw: a missing inline is passed over.
TrackInline_Swallow(doc, key) ==
  LET inline == getDescendant(doc, key)
  IN IF inline = NoNode
       THEN Outcome(<<>>, "", "undefined")
       ELSE Outcome(scrollIntoView(inline), "", "undefined")

\* The inline object branch of trackFocusPath: the node with the key of
\* focusPath[2] is looked up in the document, and scrolled to, or an error is thrown.
TrackInline(doc, key) ==
  LET inline == getDescendant(doc, key)
  IN IF inline = NoNode
       THEN Outcome(<<>>, "Error", "")
       ELSE Outcome(scrollIntoView(inline), "", "undefined")

\* The regular block branch scrolling to nothing.
TrackRegularBlock_Never(block) == Outcome(<<>>, "", "undefined")

\* The regular block branch of trackFocusPath: the last else-if.
TrackRegularBlock(block) ==
  IF block # NoNode
    THEN Outcome(scrollIntoView(block), "", "undefined")
    ELSE Outcome(<<>>, "", "undefined")

\* trackFocusPath without its test for the focused block: a path equal to the
\* focused block is tracked like any other.
trackFocusPath_NoSingleBlockTest(fp, ev, ref) ==
  LET editor == getEditor(ref)
      block == getDescendant(ev.document, KeyOf(At(fp.val, 0)))
      annotated == findInlineByAnnotationKey(KeyOf(At(fp.val, 2)), block)
  IN IF ~editor THEN Outcome(<<>>, "", "undefined")
     ELSE IF At(fp.val, 0) = Undefined THEN Outcome(<<>>, "TypeError", "")
     ELSE IF /\ Truthy(At(fp.val, 1)) /\ At(fp.val, 1) = Field("children")
             /\ Truthy(At(fp.val, 2))
       THEN TrackInline(ev.document, KeyOf(At(fp.val, 2)))
     ELSE IF /\ Truthy(At(fp.val, 1)) /\ At(fp.val, 1) = Field("markDefs")
             /\ Truthy(At(fp.val, 2))
       THEN IF findInlineByAnnotationKeyThrows(block)
              THEN Outcome(<<>>, "TypeError", "")
            ELSE IF annotated # NoNode
              THEN Outcome(scrollIntoView(annotated), "", "undefined")
            ELSE TrackRegularBlock(block)
     ELSE TrackRegularBlock(block)

\* trackFocusPath with the given props; fp is props.focusPath.
trackFocusPath(fp, ev, ref) ==
  LET editor == getEditor(ref)
      focusPathIsSingleBlock ==
        /\ ev.focusBlock # NoNode
        /\ isEqual(fp, PathArray(0, <<Key(ev.focusBlock.key)>>))
      block == getDescendant(ev.document, KeyOf(At(fp.val, 0)))
      annotated == findInlineByAnnotationKey(KeyOf(At(fp.val, 2)), block)
  IN IF ~editor THEN Outcome(<<>>, "", "undefined")
     \* focusPath[0]._key of an empty path
     ELSE IF At(fp.val, 0) = Undefined THEN Outcome(<<>>, "TypeError", "")
     ELSE IF focusPathIsSingleBlock THEN Outcome(<<>>, "", "undefined")
     ELSE IF /\ Truthy(At(fp.val, 1)) /\ At(fp.val, 1) = Field("children")
             /\ Truthy(At(fp.val, 2))
       THEN TrackInline(ev.document, KeyOf(At(fp.val, 2)))
     ELSE IF /\ Truthy(At(fp.val, 1)) /\ At(fp.val, 1) = Field("markDefs")
             /\ Truthy(At(fp.val, 2))
       THEN IF findInlineByAnnotationKeyThrows(block)
              THEN Outcome(<<>>, "TypeError", "")
            ELSE IF annotated # NoNode
              THEN Outcome(scrollIntoView(annotated), "", "undefined")
            ELSE TrackRegularBlock(block)
     ELSE TrackRegularBlock(block)

\* componentDidMount
componentDidMount(fp, ev, ref) == trackFocusPath(fp, ev, ref)

\* componentDidUpdate(prevProps) with the new props.
componentDidUpdate(prevFocusPath, fp, ev, ref) ==
  LET editor == getEditor(ref)
      focusPathChanged == ~isEqual(prevFocusPath, fp)
  IN IF ~editor THEN Outcome(<<>>, "", "undefined")
     ELSE IF Len(fp.val) = 0 THEN Outcome(<<>>, "", "undefined")
     ELSE IF ~focusPathChanged THEN Outcome(<<>>, "", "undefined")
     ELSE trackFocusPath(fp, ev, ref)

\* ------------------------------------------------------- change handling

\* handleChange reporting the focus whatever the length of the focus path.
handleChange_AnyPath(ev, fp) ==
  IF ev.focusBlock # NoNode
    THEN Outcome(<<Eff("onChange", "callback", <<>>, <<Key(ev.focusBlock.key)>>)>>,
                 "", "onChange")
    ELSE Outcome(<<Eff("onChange", "", <<>>, <<>>)>>, "", "onChange")

\* handleChange calling onFocus itself, after onChange, instead of handing
\* the report over as a callback.
handleChange_ReportsItself(ev, fp) ==
  LET focusBlock == ev.focusBlock
      path == IF focusBlock # NoNode THEN <<Key(focusBlock.key)>> ELSE <<>>
  IN IF Len(path) # 0 /\ Len(fp) = 1
       THEN Outcome(<<Eff("onChange", "", <<>>, <<>>), Eff("onFocus", "", <<>>, path)>>,
                    "", "onChange")
       ELSE Outcome(<<Eff("onChange", "", <<>>, <<>>)>>, "", "onChange")

\* handleChange(editor), editor.value being the engine's new value: the change is
\* handed to onChange, with a callback that reports the focus path or without.
handleChange(ev, fp) ==
  LET focusBlock == ev.focusBlock
      path == IF focusBlock # NoNode THEN <<Key(focusBlock.key)>> ELSE <<>>
  IN IF Len(path) # 0 /\ Len(fp) = 1
       THEN Outcome(<<Eff("onChange", "callback", <<>>, path)>>, "", "onChange")
       ELSE Outcome(<<Eff("onChange", "", <<>>, <<>>)>>, "", "onChange")

\* -------------------------------------------------------------- pasting

\* A structured value: a block, or an array of values.
Block(k) == [kind |-> "block", key |-> k, elems |-> <<>>]
Arr(s) == [kind |-> "array", key |-> "", elems |-> s]
NoValue == [kind |-> "undefined", key |-> "", elems |-> <<>>]

\* PatchEvent's insert(items, position, path); items is a sequence of values.
insert(items, position, path) ==
  [type |-> "insert", items |-> items, position |-> position, path |-> path]

\* What a paste interceptor can do: throw, return nothing, or return a result
\* with or without an insert payload and with or without a path.
Threw == [kind |-> "throw", insert |-> NoValue, hasPath |-> FALSE, path |-> <<>>]
Nothing == [kind |-> "null", insert |-> NoValue, hasPath |-> FALSE, path |-> <<>>]
Result(ins, hasPath, path) ==
  [kind |-> "result", insert |-> ins, hasPath |-> hasPath, path |-> path]

Inserts == {Arr(<<Block("X")>>), Arr(<<Block("X"), Block("Y")>>), Arr(<<>>), Block("X")}
ResultPaths == {<<Key("B2")>>, <<Key("B1"), Field("children"), Key("s1")>>, <<>>}

PasteResults ==
  {Threw, Nothing, Result(NoValue, FALSE, <<>>)}
  \cup {Result(i, FALSE, <<>>) : i \in Inserts}
  \cup {Result(i, TRUE, p) : i \in Inserts \cup {NoValue}, p \in ResultPaths}

\* The path handlePaste gives the interceptor: the focused block, then the
\* node the selection's focus is in.
PastePath(ev) ==
  (IF ev.focusBlock # NoNode THEN <<Key(ev.focusBlock.key)>> ELSE <<>>)
  \o (IF ev.focusInline # NoNode \/ ev.focusText # NoNode
        THEN <<Field("children"), Key(ev.focusKey)>> ELSE <<>>)

\* handlePaste, once an interceptor is found, handing on to next() before it
\* signals the end of the paste.
PasteWithInterceptor_NextFirst(fp, ev, result) ==
  LET start == Eff("onLoading", "start", <<>>, <<>>)
      done == Eff("onLoading", "null", <<>>, <<>>)
      call == Eff("onPaste", "", <<>>, PastePath(ev))
      patch == Eff("onPatch", "", <<insert(<<result.insert>>, "after",
                                           IF result.hasPath THEN result.path ELSE fp)>>,
                   <<>>)
  IN IF result.kind = "throw"
       THEN Outcome(<<start, call>>, "InterceptorError", "")
     ELSE IF result.kind = "result" /\ result.insert # NoValue
       THEN Outcome(<<start, call, patch, done>>, "", "insert")
     ELSE Outcome(<<start, call, Eff("next", "", <<>>, <<>>), done>>, "", "next")

\* handlePaste, once an interceptor is found, patching whatever the result.
PasteWithInterceptor_AlwaysPatches(fp, ev, result) ==
  LET start == Eff("onLoading", "start", <<>>, <<>>)
      done == Eff("onLoading", "null", <<>>, <<>>)
      call == Eff("onPaste", "", <<>>, PastePath(ev))
      patch == Eff("onPatch", "", <<insert(<<result.insert>>, "after",
                                           IF result.hasPath THEN result.path ELSE fp)>>,
                   <<>>)
  IN IF result.kind = "throw"
       THEN Outcome(<<start, call>>, "InterceptorError", "")
     ELSE IF result.kind = "result" /\ result.insert # NoValue
       THEN Outcome(<<start, call, patch, done>>, "", "insert")
     ELSE Outcome(<<start, call, patch, done, Eff("next", "", <<>>, <<>>)>>, "", "next")

\* handlePaste once an interceptor is found: the loading signals around the
\* call of the interceptor, the patch for an insert payload, or next().
PasteWithInterceptor(fp, ev, result) ==
  LET start == Eff("onLoading", "start", <<>>, <<>>)
      done == Eff("onLoading", "null", <<>>, <<>>)
      call == Eff("onPaste", "", <<>>, PastePath(ev))
      patch == Eff("onPatch", "", <<insert(<<result.insert>>, "after",
                                           IF result.hasPath THEN result.path ELSE fp)>>,
                   <<>>)
  IN IF result.kind = "throw"
       THEN Outcome(<<start, call>>, "InterceptorError", "")
     ELSE IF result.kind = "result" /\ result.insert # NoValue
       THEN Outcome(<<start, call, patch, done>>, "", "insert")
     ELSE Outcome(<<start, call, done, Eff("next", "", <<>>, <<>>)>>, "", "next")

\* handlePaste handing the paste on to next() after it patched an insert result.
handlePaste_InsertThenNext(hasOnPaste, fp, ev, result) ==
  LET o == PasteWithInterceptor(fp, ev, result)
  IN IF ~hasOnPaste THEN Outcome(<<Eff("next", "", <<>>, <<>>)>>, "", "next")
     ELSE IF o.ret = "insert"
       THEN Outcome(Append(o.trace, Eff("next", "", <<>>, <<>>)), "", "next")
     ELSE o

\* handlePaste without its test for an interceptor.
handlePaste_Unguarded(hasOnPaste, fp, ev, result) == PasteWithInterceptor(fp, ev, result)

\* handlePaste(event, editor, next); hasOnPaste: props.onPaste || onPasteFromPart,
\* result: what the interceptor does when called.
handlePaste(hasOnPaste, fp, ev, result) ==
  IF ~hasOnPaste THEN Outcome(<<Eff("next", "", <<>>, <<>>)>>, "", "next")
  ELSE PasteWithInterceptor(fp, ev, result)

\* handlePasteProgress and the host's onLoading: the loading state after the
\* signals of a trace, starting from the state cur.
RECURSIVE LoadingAfter(_, _)
LoadingAfter(cur, trace) ==
  IF trace = <<>> THEN cur
  ELSE LoadingAfter(IF trace[1].op = "onLoading" THEN trace[1].sig ELSE cur, Tail(trace))

\* ------------------------------------------------------ the handler chain

\* this._plugins, in the order of the constructor.
plugins ==
  <<"QueryPlugin", "ListItemOnEnterKeyPlugin", "ListItemOnTabKeyPlugin",
    "ToggleListItemPlugin", "TextBlockOnEnterKeyPlugin", "SetMarksOnKeyComboPlugin",
    "SoftBreakPlugin", "PastePlugin", "insertBlockOnEnter", "OnDropPlugin",
    "SetBlockStylePlugin", "ToggleAnnotationPlugin", "ExpandToWordPlugin",
    "WrapSpanPlugin", "InsertInlineObjectPlugin", "InsertBlockObjectPlugin",
    "UndoRedoPlugin", "FireFoxVoidNodePlugin">>

\* The stack the engine runs a paste event through: the handler given to it as
\* its onPaste prop, then the plugins given as its plugins prop, in their order,
\* then its own default.
PasteStack == <<"handlePaste">> \o plugins \o <<"default">>

\* Whether an entry of the stack handles paste events: of the plugins, the
\* PastePlugin does.
HasPasteHandler(name) == name \in {"handlePaste", "PastePlugin", "default"}

\* handlePasteProgress({status}): the status is handed to the host's onLoading.
handlePasteProgress(status) == <<Eff("onLoading", status, <<>>, <<>>)>>

\* What the PastePlugin reports through the onProgress it was given, which is
\* handlePasteProgress: nothing, or one status (a string, or null).
NoReport == "none"
ProgressReports == {NoReport, "html", "blocks", "null"}

\* The paste handler of the PastePlugin: it leaves its mark, reports its
\* progress through onProgress, and claims the event or hands it on.
PastePluginOnPaste(claims, report) ==
  LET mark == <<Eff("PastePlugin", "", <<>>, <<>>)>>
      progress == IF report = NoReport THEN <<>> ELSE handlePasteProgress(report)
  IN IF claims
       THEN Outcome(mark \o progress, "", "true")
       ELSE Outcome(mark \o progress \o <<Eff("next", "", <<>>, <<>>)>>, "", "next")

\* The paste handler of one entry of the stack.
PasteHandler(name, hasOnPaste, fp, ev, result, plugin) ==
  IF name = "handlePaste" THEN handlePaste(hasOnPaste, fp, ev, result)
  ELSE IF name = "PastePlugin" THEN PastePluginOnPaste(plugin.claims, plugin.report)
  ELSE Outcome(<<Eff("default", "", <<>>, <<>>)>>, "", "default")

\* The engine's run of a paste event through the stack: the first handler is
\* called with a next() that runs the rest of the stack, so the rest runs where
\* the handler calls next(), and not at all where it returns without or throws.
RECURSIVE run(_, _, _, _, _, _)
run(stack, hasOnPaste, fp, ev, result, plugin) ==
  IF stack = <<>> THEN Outcome(<<>>, "", "undefined")
  ELSE IF ~HasPasteHandler(Head(stack))
    THEN run(Tail(stack), hasOnPaste, fp, ev, result, plugin)
  ELSE LET o == PasteHandler(Head(stack), hasOnPaste, fp, ev, result, plugin)
           entered == <<Eff("enter", Head(stack), <<>>, <<>>)>>
           rest == run(Tail(stack), hasOnPaste, fp, ev, result, plugin)
       IN IF o.thrown = "" /\ o.ret = "next"
            THEN Outcome(entered \o o.trace \o rest.trace, rest.thrown, rest.ret)
            ELSE Outcome(entered \o o.trace, o.thrown, o.ret)

\* ---------------------------------------------------------------- copying

\* handleCopy calling the interceptor and then handing the event on as well.
handleCopy_AlsoNext(hasOnCopy) ==
  IF hasOnCopy
    THEN Outcome(<<Eff("onCopy", "", <<>>, <<>>), Eff("next", "", <<>>, <<>>)>>, "", "next")
    ELSE Outcome(<<Eff("next", "", <<>>, <<>>)>>, "", "next")

\* handleCopy(event, editor, next)
handleCopy(hasOnCopy) ==
  IF hasOnCopy THEN Outcome(<<Eff("onCopy", "", <<>>, <<>>)>>, "", "onCopy")
  ELSE Outcome(<<Eff("next", "", <<>>, <<>>)>>, "", "next")

\* --------------------------------------------------------------- dragging

\* What getEventTransfer(event) gives: the type of the payload and its node, by
\* the node's object ("" when the payload holds no node).
Transfer(type, object) == [type |-> type, node |-> object]
Transfers ==
  {Transfer("node", o) : o \in {"block", "inline", "text"}}
  \cup {Transfer(t, "") : t \in {"text", "html", "fragment", "files", "unknown"}}

\* handleDrag stopping the engine for blocks only.
handleDrag_BlocksOnly(transfer) ==
  IF transfer.node # "" /\ transfer.node = "block"
    THEN Outcome(<<Eff("dropEffect", "move", <<>>, <<>>),
                   Eff("preventDefault", "", <<>>, <<>>)>>, "", "true")
    ELSE Outcome(<<Eff("next", "", <<>>, <<>>)>>, "", "next")

\* handleDrag(event, editor, next)
handleDrag(transfer) ==
  IF transfer.node # "" /\ (transfer.node = "block" \/ transfer.node = "inline")
    THEN Outcome(<<Eff("dropEffect", "move", <<>>, <<>>),
                   Eff("preventDefault", "", <<>>, <<>>)>>, "", "true")
    ELSE Outcome(<<Eff("next", "", <<>>, <<>>)>>, "", "next")

\* ------------------------------------------------------------- fullscreen

\* A key-down event, and the platform it happens on.
KeyEvents ==
  [key : {"Enter", "Escape", "a"}, altKey : BOOLEAN, ctrlKey : BOOLEAN,
   metaKey : BOOLEAN, shiftKey : BOOLEAN, isApple : BOOLEAN]

\* is-hotkey's parse of "mod+enter" and "esc": the key, and every modifier
\* either wanted or unwanted; mod is the meta key on Apple, else the control key.
parseHotkey(hotkey, isApple) ==
  IF hotkey = "mod+enter"
    THEN [key |-> "Enter", altKey |-> FALSE, ctrlKey |-> ~isApple,
          metaKey |-> isApple, shiftKey |-> FALSE]
    ELSE [key |-> "Escape", altKey |-> FALSE, ctrlKey |-> FALSE,
          metaKey |-> FALSE, shiftKey |-> FALSE]

\* is-hotkey's isKeyHotkey(hotkey)(event)
isKeyHotkey(hotkey, event) ==
  LET want == parseHotkey(hotkey, event.isApple)
  IN /\ event.key = want.key
     /\ event.altKey = want.altKey
     /\ event.ctrlKey = want.ctrlKey
     /\ event.metaKey = want.metaKey
     /\ event.shiftKey = want.shiftKey

\* handleToggleFullscreen taking Escape whatever the fullscreen flag.
handleToggleFullscreen_AnyEscape(event, fs) ==
  IF isKeyHotkey("mod+enter", event) \/ isKeyHotkey("esc", event)
    THEN Outcome(<<Eff("preventDefault", "", <<>>, <<>>),
                   Eff("stopPropagation", "", <<>>, <<>>),
                   Eff("onToggleFullScreen", "", <<>>, <<>>)>>, "", "true")
    ELSE Outcome(<<Eff("next", "", <<>>, <<>>)>>, "", "next")

\* handleToggleFullscreen(event, editor, next)
handleToggleFullscreen(event, fs) ==
  LET isFullscreenKey == isKeyHotkey("mod+enter", event)
      isEsc == isKeyHotkey("esc", event)
  IN IF isFullscreenKey \/ (isEsc /\ fs)
       THEN Outcome(<<Eff("preventDefault", "", <<>>, <<>>),
                      Eff("stopPropagation", "", <<>>, <<>>),
                      Eff("onToggleFullScreen", "", <<>>, <<>>)>>, "", "true")
       ELSE Outcome(<<Eff("next", "", <<>>, <<>>)>>, "", "next")

\* -------------------------------------------------------------- rendering

\* A marker: a validation message (or the like) addressed by a path.
Marker(path) == [type |-> "validation", path |-> path]

\* The test for an inline node reading the first segment of the path.
TargetsInline_FirstSegment(marker, node) ==
  /\ Truthy(At(marker.path, 0))
  /\ At(marker.path, 0).kind = "key"
  /\ At(marker.path, 0).v = node.dkey

\* The test renderNode applies to a marker for an inline node and for a span:
\* marker.path[2] && marker.path[2]._key === node.data.get('_key')
TargetsInline(marker, node) ==
  /\ Truthy(At(marker.path, 2))
  /\ At(marker.path, 2).kind = "key"
  /\ At(marker.path, 2).v = node.dkey

\* The test renderNode applies to a marker for an annotation of a span of block:
\* marker.path[0]._key === block.key && marker.path[1] === 'markDefs' &&
\* marker.path[2]._key === annotation._key
TargetsAnnotation(marker, block, annotation) ==
  /\ At(marker.path, 0).kind = "key" /\ At(marker.path, 0).v = block.key
  /\ At(marker.path, 1) = Field("markDefs")
  /\ At(marker.path, 2).kind = "key" /\ At(marker.path, 2).v = annotation._key

\* Whether that test throws a TypeError on the marker: it reads _key of
\* path[0], and of path[2] once the first two segments match.
AnnotationTestThrows(marker, block) ==
  \/ At(marker.path, 0) = Undefined
  \/ /\ At(marker.path, 0).kind = "key" /\ At(marker.path, 0).v = block.key
     /\ At(marker.path, 1) = Field("markDefs")
     /\ At(marker.path, 2) = Undefined

\* The markers renderNode collects for the annotations of a span, one
\* annotation after the other.
RECURSIVE AnnotationMarkers(_, _, _)
AnnotationMarkers(ms, block, anns) ==
  IF anns = <<>> THEN <<>>
  ELSE LET a == anns[1]
           test(m) == TargetsAnnotation(m, block, a)
       IN SelectSeq(ms, test) \o AnnotationMarkers(ms, block, Tail(anns))

\* The markers renderNode hands to the view of the node.
NodeMarkers(node, ms, doc) ==
  LET test(m) == TargetsInline(m, node)
      forInline == IF node.object = "inline" THEN SelectSeq(ms, test) ELSE <<>>
      block == getParent(doc, node.key)
  IN IF node.type = "span"
       THEN SelectSeq(ms, test) \o AnnotationMarkers(ms, block, node.annotations)
       ELSE forInline

\* The view renderNode picks for the node.
NodeView(node) ==
  IF node.type = "contentBlock" THEN "ContentBlock"
  ELSE IF node.type = "span" THEN "Span"
  ELSE IF node.object = "inline" THEN "InlineObject"
  ELSE "BlockObject"

\* renderNode(props), props.node being the node and props.editor.value.document doc.
renderNode(node, ms, doc) ==
  LET block == getParent(doc, node.key)
      throws == /\ node.type = "span"
                /\ node.annotations # <<>>
                /\ \E i \in 1..Len(ms) : AnnotationTestThrows(ms[i], block)
  IN IF throws THEN Outcome(<<>>, "TypeError", "")
     ELSE Outcome(<<Eff("render", NodeView(node), NodeMarkers(node, ms, doc), <<>>)>>,
                  "", NodeView(node))

\* A decorator of the registry: its value (the name of the mark) and what its
\* blockEditor holds: nothing, an object without render, or a render view.
Decorator(v, blockEditor) == [value |-> v, blockEditor |-> blockEditor]

\* decorators.find(item => item.value === type): the index of the first
\* decorator with that value, or 0.
FindDecorator(ds, type) ==
  LET hit == {i \in 1..Len(ds) : ds[i].value = type}
  IN IF hit = {} THEN 0 ELSE CHOOSE i \in hit : \A j \in hit : i <= j

\* renderMark giving nothing unless the decorator has a view of its own.
renderMark_NoFallback(type, ds) ==
  LET i == FindDecorator(ds, type)
  IN IF i # 0 /\ ds[i].blockEditor = "render"
       THEN Outcome(<<Eff("render", "CustomComponent", <<>>, <<Key(ds[i].value)>>)>>,
                    "", "CustomComponent")
       ELSE Outcome(<<>>, "", "null")

\* renderMark(props), props.mark.type being type: the view of the decorator's
\* own, the Decorator view, or null.
renderMark(type, ds) ==
  LET i == FindDecorator(ds, type)
      CustomComponent ==
        IF i # 0 /\ ds[i].blockEditor # "none" /\ ds[i].blockEditor = "render"
          THEN "render" ELSE "null"
  IN IF CustomComponent # "null"
       THEN Outcome(<<Eff("render", "CustomComponent", <<>>, <<Key(ds[i].value)>>)>>,
                    "", "CustomComponent")
     ELSE IF i # 0
       THEN Outcome(<<Eff("render", "Decorator", <<>>, <<>>)>>, "", "Decorator")
     ELSE Outcome(<<>>, "", "null")

\* ------------------------------------------------------------ the inputs

\* Focus paths: none, a block (B9 is in no document), a child of a block (t1 is
\* a text node, zz is in no document), an annotation of a block, a field of
\* a block, and two paths with a field name where a key is read.
BlockKeys == {"B1", "B2", "B9"}
ChildKeys == {"s1", "i1", "t1", "zz"}
AnnotationKeys == {"a1"}

Paths ==
  {<<>>}
  \cup {<<Key(b)>> : b \in BlockKeys}
  \cup {<<Key(b), Field("children")>> : b \in BlockKeys}
  \cup {<<Key(b), Field("children"), Key(c)>> : b \in BlockKeys, c \in ChildKeys}
  \cup {<<Key(b), Field("markDefs"), Key(a)>> : b \in BlockKeys, a \in AnnotationKeys}
  \cup {<<Field("B1")>>, <<Key("B1"), Field("children"), Field("s1")>>}

\* The paths the handlers are tried with.
HandlerPaths ==
  {<<>>, <<Key("B1")>>, <<Key("B1"), Field("children"), Key("s1")>>,
   <<Key("B2"), Field("markDefs"), Key("a1")>>}

\* The editor values of one document.
ValuesOf(doc) == {ev \in EditorValues : ev.document = doc}

\* The paths of markers.
MarkerPaths ==
  {<<>>, <<Key("B1")>>, <<Key("B2")>>, <<Key("s1")>>, <<Key("i1")>>,
   <<Key("B2"), Field("markDefs")>>,
   <<Key("B1"), Field("children"), Key("s1")>>,
   <<Key("B2"), Field("children"), Key("i1")>>,
   <<Key("B1"), Field("markDefs"), Key("a1")>>,
   <<Key("B2"), Field("markDefs"), Key("a1")>>,
   <<Key("B2"), Field("markDefs"), Key("a2")>>}

\* The lists of at most n markers.
RECURSIVE MarkerLists(_)
MarkerLists(n) ==
  IF n = 0 THEN {<<>>}
  ELSE MarkerLists(n - 1)
       \cup {Append(ms, Marker(p)) : ms \in MarkerLists(n - 1), p \in MarkerPaths}

\* The persisted blocks of props.value.
PersistedValues == {<<>>, <<Block("B1"), Block("B2")>>}

\* The names of marks: three that decorators are made for, and one that none is.
MarkTypes == {"strong", "em", "code", "underline"}
DecoratorValues == {"strong", "em", "code"}

\* The registries of at most n decorators: the decorators of a schema have
\* values of their own.
RECURSIVE DecoratorRegistries(_)
DecoratorRegistries(n) ==
  IF n = 0 THEN {<<>>}
  ELSE DecoratorRegistries(n - 1)
       \cup {Append(ds, Decorator(v, b)) :
               ds \in {r \in DecoratorRegistries(n - 1) : Len(r) = n - 1},
               v \in DecoratorValues, b \in {"none", "object", "render"}}

\* The registries whose decorators have values of their own.
Registries ==
  {ds \in DecoratorRegistries(MaxDecorators) :
     \A i, j \in 1..Len(ds) : ds[i].value = ds[j].value => i = j}

\* ---------------------------------------------------------------- actions

\* What fx holds before any handler ran.
Idle == [handler |-> "none", input |-> <<>>, trace |-> <<>>, thrown |-> "", ret |-> ""]

Did(handler, input, outcome) ==
  [handler |-> handler, input |-> input, trace |-> outcome.trace,
   thrown |-> outcome.thrown, ret |-> outcome.ret]

\* An error thrown by a lifecycle hook takes the component down.
Alive ==
  /\ editorRef
  /\ ~(fx.handler \in {"mount", "update"} /\ fx.thrown # "")

\* The component is mounted: the engine's ref is set, then componentDidMount runs.
Mount ==
  /\ ~editorRef
  /\ fx.handler = "none"
  /\ editorRef' = TRUE
  /\ fx' = Did("mount", PathArray(focusRef, focusPath),
               componentDidMount(PathArray(focusRef, focusPath), editorValue, TRUE))
  /\ UNCHANGED decorators
  /\ UNCHANGED <<focusPath, focusRef, editorValue, fullscreen, markers, onPasteProp,
                 parts, value, loading>>

\* The host renders with another focusPath array, of whatever value:
\* componentDidUpdate runs with the former props.
SetFocusPath ==
  /\ Alive
  /\ \E fp \in Paths, ref \in 1..MaxRef :
       /\ ref # focusRef
       /\ focusPath' = fp
       /\ focusRef' = ref
       /\ fx' = Did("update", PathArray(focusRef, focusPath),
                    componentDidUpdate(PathArray(focusRef, focusPath), PathArray(ref, fp),
                                       editorValue, editorRef))
  /\ UNCHANGED decorators
  /\ UNCHANGED <<editorValue, fullscreen, markers, onPasteProp, parts, value,
                 editorRef, loading>>

\* The host renders with another editor value and the same focusPath.
SetEditorValue ==
  /\ Alive
  /\ \E ev \in EditorValues :
       /\ ev # editorValue
       /\ editorValue' = ev
       /\ fx' = Did("update", PathArray(focusRef, focusPath),
                    componentDidUpdate(PathArray(focusRef, focusPath),
                                       PathArray(focusRef, focusPath), ev, editorRef))
  /\ UNCHANGED decorators
  /\ UNCHANGED <<focusPath, focusRef, fullscreen, markers, onPasteProp, parts, value,
                 editorRef, loading>>

\* The engine reports a change: handleChange runs with the engine's new value.
Change ==
  /\ Alive
  /\ \E ev \in EditorValues :
       fx' = Did("change", ev, handleChange(ev, focusPath))
  /\ UNCHANGED decorators
  /\ UNCHANGED <<focusPath, focusRef, editorValue, fullscreen, markers, onPasteProp,
                 parts, value, editorRef, loading>>

\* The host's onChange runs the callback it was given, once: onFocus(path).
HostRunsCallback ==
  /\ Alive
  /\ fx.handler = "change"
  /\ Len(fx.trace) = 1
  /\ fx.trace[1].sig = "callback"
  /\ fx' = [fx EXCEPT !.trace = Append(@, Eff("onFocus", "", <<>>, fx.trace[1].path))]
  /\ UNCHANGED decorators
  /\ UNCHANGED <<focusPath, focusRef, editorValue, fullscreen, markers, onPasteProp,
                 parts, value, editorRef, loading>>

\* A paste event reaches handlePaste; the interceptor, if there is one, does
\* one of the things an interceptor can do.
Paste ==
  /\ Alive
  /\ LET hasOnPaste == onPasteProp \/ parts.onPasteFromPart
     IN \E result \in (IF hasOnPaste THEN PasteResults ELSE {Nothing}) :
          LET outcome == handlePaste(hasOnPaste, focusPath, editorValue, result)
          IN /\ fx' = Did("paste", result, outcome)
             /\ loading' = LoadingAfter(loading, outcome.trace)
  /\ UNCHANGED decorators
  /\ UNCHANGED <<focusPath, focusRef, editorValue, fullscreen, markers, onPasteProp,
                 parts, value, editorRef>>

\* The engine runs a paste event through its stack: handlePaste first, then
\* the plugins, then its default; the PastePlugin, where it runs, reports its
\* progress through handlePasteProgress.
PasteEvent ==
  /\ Alive
  /\ LET hasOnPaste == onPasteProp \/ parts.onPasteFromPart
     IN \E result \in (IF hasOnPaste THEN PasteResults ELSE {Nothing}),
           pluginClaims \in BOOLEAN, report \in ProgressReports :
          LET plugin == [claims |-> pluginClaims, report |-> report]
              outcome == run(PasteStack, hasOnPaste, focusPath, editorValue, result, plugin)
          IN /\ fx' = Did("pasteEvent",
                          [result |-> result, pluginClaims |-> pluginClaims,
                           report |-> report],
                          outcome)
             /\ loading' = LoadingAfter(loading, outcome.trace)
  /\ UNCHANGED decorators
  /\ UNCHANGED <<focusPath, focusRef, editorValue, fullscreen, markers, onPasteProp,
                 parts, value, editorRef>>

\* A copy event reaches handleCopy.
Copy ==
  /\ Alive
  /\ fx' = Did("copy", <<>>, handleCopy(parts.onCopy))
  /\ UNCHANGED decorators
  /\ UNCHANGED <<focusPath, focusRef, editorValue, fullscreen, markers, onPasteProp,
                 parts, value, editorRef, loading>>

\* A drag-over or a drop event reaches handleDrag.
Drag ==
  /\ Alive
  /\ \E kind \in {"dragover", "drop"}, transfer \in Transfers :
       fx' = Did(kind, transfer, handleDrag(transfer))
  /\ UNCHANGED decorators
  /\ UNCHANGED <<focusPath, focusRef, editorValue, fullscreen, markers, onPasteProp,
                 parts, value, editorRef, loading>>

\* A key-down event reaches handleToggleFullscreen.
KeyDown ==
  /\ Alive
  /\ \E event \in KeyEvents :
       fx' = Did("keydown", event, handleToggleFullscreen(event, fullscreen))
  /\ UNCHANGED decorators
  /\ UNCHANGED <<focusPath, focusRef, editorValue, fullscreen, markers, onPasteProp,
                 parts, value, editorRef, loading>>

\* The host toggles the fullscreen flag after a toggle request, or on its own.
SetFullscreen ==
  /\ Alive
  /\ fullscreen' = ~fullscreen
  /\ fx' = Did("update", PathArray(focusRef, focusPath),
               componentDidUpdate(PathArray(focusRef, focusPath),
                                  PathArray(focusRef, focusPath), editorValue, editorRef))
  /\ UNCHANGED decorators
  /\ UNCHANGED <<focusPath, focusRef, editorValue, markers, onPasteProp, parts, value,
                 editorRef, loading>>

\* The engine renders a block or an inline node of the document.
RenderNode ==
  /\ Alive
  /\ LET ds == Descendants(editorValue.document)
     IN \E i \in 1..Len(ds) :
          /\ ds[i].object \in {"block", "inline"}
          /\ fx' = Did("renderNode", ds[i], renderNode(ds[i], markers, editorValue.document))
  /\ UNCHANGED decorators
  /\ UNCHANGED <<focusPath, focusRef, editorValue, fullscreen, markers, onPasteProp,
                 parts, value, editorRef, loading>>

\* The engine renders a mark of a span.
RenderMark ==
  /\ Alive
  /\ \E type \in MarkTypes :
       fx' = Did("renderMark", [type |-> type], renderMark(type, decorators))
  /\ UNCHANGED decorators
  /\ UNCHANGED <<focusPath, focusRef, editorValue, fullscreen, markers, onPasteProp,
                 parts, value, editorRef, loading>>

\* ---------------------------------------------------------- specifications

NoParts == [onPasteFromPart |-> FALSE, onCopy |-> FALSE]
AllParts == [onPasteFromPart : BOOLEAN, onCopy : BOOLEAN]

\* The state after construction, the props and the parts drawn from the sets given.
InitWith(paths, evs, fss, pasteProps, partsSet, values, markerLists, mounted) ==
  /\ focusPath \in paths
  /\ focusRef = 1
  /\ editorValue \in evs
  /\ fullscreen \in fss
  /\ markers \in markerLists
  /\ onPasteProp \in pasteProps
  /\ parts \in partsSet
  /\ value \in values
  /\ editorRef = mounted
  /\ decorators = <<>>
  /\ loading = ""
  /\ fx = Idle

\* Focus tracking: the component is mounted and updated with focus paths and
\* editor values.
FocusInit ==
  InitWith(Paths, EditorValues, {FALSE}, {FALSE}, {NoParts}, {<<>>}, {<<>>}, FALSE)
FocusNext == Mount \/ SetFocusPath \/ SetEditorValue
FocusSpec == FocusInit /\ [][FocusNext]_vars

\* Pasting and copying, with and without interceptors.
PasteInit ==
  InitWith({<<Key("B1")>>, <<Key("B1"), Field("children"), Key("s1")>>},
           {Unselected(DocA), SelectionAt(DocA, Text("t2"))}, {FALSE},
           BOOLEAN, AllParts, PersistedValues, {<<>>}, TRUE)
PasteNext == Paste \/ Copy \/ PasteEvent
PasteSpec == PasteInit /\ [][PasteNext]_vars

\* Changes, drags and key presses.
EventInit ==
  InitWith(HandlerPaths, ValuesOf(DocA), BOOLEAN, {FALSE}, {NoParts}, {<<>>}, {<<>>}, TRUE)
EventNext == Change \/ HostRunsCallback \/ Drag \/ KeyDown \/ SetFullscreen
EventSpec == EventInit /\ [][EventNext]_vars

\* Rendering the nodes of a document with markers.
RenderInit ==
  InitWith({<<>>}, {Unselected(d) : d \in Docs}, {FALSE}, {FALSE}, {NoParts}, {<<>>},
           MarkerLists(MaxMarkers), TRUE)
RenderNext == RenderNode
RenderSpec == RenderInit /\ [][RenderNext]_vars

\* Every handler of the editing surface, on a component that is mounted with
\* one of a few focus paths.
HandlerInit ==
  InitWith(HandlerPaths, {Unselected(DocA), SelectionAt(DocA, Text("t2"))}, BOOLEAN,
           BOOLEAN, AllParts, {<<Block("B1"), Block("B2")>>}, {<<>>}, FALSE)
HandlerNext ==
  Mount \/ Change \/ HostRunsCallback \/ Paste \/ Copy \/ Drag \/ KeyDown \/ SetFullscreen
HandlerSpec == HandlerInit /\ [][HandlerNext]_vars

\* Rendering the marks of a span with a registry of decorators.
MarkInit ==
  /\ focusPath = <<>>
  /\ focusRef = 1
  /\ editorValue = Unselected(DocA)
  /\ fullscreen = FALSE
  /\ markers = <<>>
  /\ onPasteProp = FALSE
  /\ parts = NoParts
  /\ value = <<>>
  /\ editorRef = TRUE
  /\ decorators \in Registries
  /\ loading = ""
  /\ fx = Idle
MarkNext == RenderMark
MarkSpec == MarkInit /\ [][MarkNext]_vars

\* ----------------------------------------------------- reading a trace

\* The calls of a trace to one collaborator, in order.
Calls(trace, op) == SelectSeq(trace, LAMBDA e : e.op = op)

\* How often a trace calls a collaborator.
Count(trace, op) == Len(Calls(trace, op))

\* The loading signals of a trace, in order.
Signals(trace) == [i \in 1..Count(trace, "onLoading") |-> Calls(trace, "onLoading")[i].sig]

\* The keys of the nodes a trace brings into view, in order.
Scrolled(trace) ==
  [i \in 1..Count(trace, "scrollIntoView") |-> Calls(trace, "scrollIntoView")[i].sig]

\* The operations of the patch events a trace hands to onPatch, event by event.
Patches(trace) == [i \in 1..Count(trace, "onPatch") |-> Calls(trace, "onPatch")[i].ops]

\* The last handler was handlePaste and an interceptor was configured.
PastedWithInterceptor ==
  /\ fx.handler = "paste"
  /\ (onPasteProp \/ parts.onPasteFromPart)

\* ------------------------------------------------------------------ claims

\* C1: a paste whose interceptor returns {insert: [blockX], path: P} gives the
\* patch sink exactly one patch event holding exactly one operation, insert
\* blockX after P, and the loading callback 'start' then null and nothing else,
\* and next() is not called.
C1_PasteInsertsTheBlockAfterPath ==
  (/\ PastedWithInterceptor
   /\ fx.input.kind = "result"
   /\ fx.input.insert.kind = "array"
   /\ Len(fx.input.insert.elems) = 1
   /\ fx.input.hasPath)
  => /\ Patches(fx.trace) = <<<<insert(fx.input.insert.elems, "after", fx.input.path)>>>>
     /\ Signals(fx.trace) = <<"start", "null">>
     /\ Count(fx.trace, "next") = 0

\* C2: every 'start' loading signal of handlePaste is followed by a null signal
\* before handlePaste ends, whatever the interceptor does (an insert result, no
\* result, a thrown error), and after any sequence of paste events the last
\* loading signal is not 'start'.
C2_StartIsFollowedByNull ==
  /\ loading # "start"
  /\ fx.handler = "paste" =>
       \A i \in 1..Len(Signals(fx.trace)) :
         Signals(fx.trace)[i] = "start" =>
           \E j \in (i + 1)..Len(Signals(fx.trace)) : Signals(fx.trace)[j] = "null"

\* C3: a paste with no interceptor configured (neither the onPaste prop nor the
\* part) gives the patch sink no operation, emits no loading signal and calls
\* next() exactly once.
C3_PasteWithoutInterceptorFallsThrough ==
  (fx.handler = "paste" /\ ~(onPasteProp \/ parts.onPasteFromPart))
  => /\ Count(fx.trace, "onPatch") = 0
     /\ Count(fx.trace, "onLoading") = 0
     /\ Count(fx.trace, "onPaste") = 0
     /\ Count(fx.trace, "next") = 1
     /\ fx.thrown = ""

\* C3's case: a paste event was handled with no interceptor configured.
C3_Witness ==
  /\ fx.handler = "paste"
  /\ ~onPasteProp /\ ~parts.onPasteFromPart
  /\ fx.trace = <<Eff("next", "", <<>>, <<>>)>>

\* The last lifecycle hook ran trackFocusPath: the mount, or an update whose
\* focus path is not empty and differs in value from the one before.
Tracked ==
  \/ fx.handler = "mount"
  \/ fx.handler = "update" /\ focusPath # <<>> /\ fx.input.val # focusPath

\* The focus path is [{_key: B}, field, {_key: K}].
IsThreeSegment(fp, field) ==
  /\ Len(fp) = 3
  /\ fp[1].kind = "key"
  /\ fp[2] = Field(field)
  /\ fp[3].kind = "key"

\* The top-level block of the document with that key, if any.
BlocksWithKey(doc, key) == {b \in Children(doc) : b.key = key}

\* Some span of the block carries the annotation.
SomeSpanCarries(block, key) ==
  \E c \in Children(block) : c.type = "span" /\ CarriesAnnotation(c, key)

\* The focus path is an annotation path of a block of the document none of
\* whose spans carries the annotation.
UncarriedAnnotationPath ==
  /\ IsThreeSegment(focusPath, "markDefs")
  /\ \A b \in BlocksWithKey(editorValue.document, focusPath[1].v) :
       ~SomeSpanCarries(b, focusPath[3].v)

C4_WitnessAbsentBlock ==
  /\ Tracked /\ UncarriedAnnotationPath
  /\ focusPath[1].v = "B9"
  /\ fx.thrown = "TypeError"

\* Block B of the document has a child with key C.
IsChildOf(doc, blockKey, childKey) ==
  \E b \in BlocksWithKey(doc, blockKey) : \E c \in Children(b) : c.key = childKey

\* The document holds a node with that key, at whatever depth.
InDocument(doc, key) ==
  \E i \in 1..Len(Descendants(doc)) : Descendants(doc)[i].key = key

\* Block B of the document holds a node with key C, at whatever depth under it.
IsUnder(doc, blockKey, key) ==
  \E b \in BlocksWithKey(doc, blockKey) : InDocument(b, key)

\* C5 as stated: for a focus path [{_key:B}, "children", {_key:C}] where block B
\* has no child with key C, trackFocusPath fails with an error and brings
\* nothing into view, also when a node with key C lives under another block.
\* Read in the claim's favour: a node anywhere under block B counts as found.
C5_MissingChildOfBlockFails ==
  (/\ Tracked /\ IsThreeSegment(focusPath, "children")
   /\ ~IsUnder(editorValue.document, focusPath[1].v, focusPath[3].v))
  => fx.thrown = "Error" /\ Scrolled(fx.trace) = <<>>

\* C5 as amended: for a focus path [{_key:B}, "children", {_key:C}], trackFocusPath
\* fails with an error, bringing nothing into view, exactly when the document
\* holds no node with key C at all; the lookup is over the whole document, so
\* a node with key C under another block is found and brought into view.
C5_MissingKeyInDocumentFails ==
  (Tracked /\ IsThreeSegment(focusPath, "children"))
  => IF InDocument(editorValue.document, focusPath[3].v)
       THEN fx.thrown = "" /\ Scrolled(fx.trace) = <<focusPath[3].v>>
       ELSE fx.thrown = "Error" /\ Scrolled(fx.trace) = <<>>

\* C5's case: trackFocusPath ran on a child path whose key is nowhere in the
\* document, and threw.
C5_Witness ==
  /\ Tracked /\ IsThreeSegment(focusPath, "children")
  /\ ~InDocument(editorValue.document, focusPath[3].v)
  /\ fx.thrown = "Error"

\* C6: for a focus path [{_key:B}, "children", {_key:C}] with C a child of B, the
\* mount and every update that changes the value of the focus path to it bring
\* node C into view exactly once; an update whose focus path equals the former
\* one by value (another array, or another editor value) resolves nothing and
\* brings nothing into view.
C6_ScrollsOncePerChangeOfPath ==
  /\ (/\ Tracked /\ IsThreeSegment(focusPath, "children")
      /\ IsChildOf(editorValue.document, focusPath[1].v, focusPath[3].v))
     => Scrolled(fx.trace) = <<focusPath[3].v>> /\ fx.thrown = ""
  /\ (fx.handler = "update" /\ fx.input.val = focusPath)
     => fx.trace = <<>> /\ fx.thrown = ""

\* C6's case: an update changed the focus path to a child path of a block that
\* has the child, and the child was brought into view once.
C6_Witness ==
  /\ fx.handler = "update"
  /\ fx.input.val # focusPath
  /\ IsThreeSegment(focusPath, "children")
  /\ IsChildOf(editorValue.document, focusPath[1].v, focusPath[3].v)
  /\ Scrolled(fx.trace) = <<focusPath[3].v>>

\* C7: on every document change, handleChange reports a focus path if and only
\* if the new document has a focused block and the focusPath prop has exactly
\* one segment, and the path reported is the one segment {_key: focusBlock.key}
\* of the new document; otherwise no focus path is reported.
C7_FocusReportedForSingleSegmentPath ==
  fx.handler = "change" =>
    LET reports == (fx.input.focusBlock # NoNode /\ Len(focusPath) = 1)
        onChange == fx.trace[1]
    IN /\ onChange.op = "onChange"
       /\ Count(fx.trace, "onChange") = 1
       /\ (onChange.sig = "callback") <=> reports
       /\ reports => onChange.path = <<Key(fx.input.focusBlock.key)>>
       /\ \A i \in 1..Len(fx.trace) :
            fx.trace[i].op = "onFocus" =>
              reports /\ fx.trace[i].path = <<Key(fx.input.focusBlock.key)>>

\* C7's case: a change with a focused block and a one-segment focus path, whose
\* focus path was reported through the callback.
C7_Witness ==
  /\ fx.handler = "change"
  /\ fx.input.focusBlock # NoNode
  /\ Len(focusPath) = 1
  /\ Count(fx.trace, "onFocus") = 1
  /\ fx.trace[2].path = <<Key(fx.input.focusBlock.key)>>

\* C8: on every drag-over and drop, handleDrag cancels the default, sets the
\* drop effect to move, returns true and does not call next() if the payload
\* carries a node that is a block or an inline; for every other payload it
\* calls next() once and neither cancels nor sets the drop effect.
C8_DragOfBlockOrInlineIsClaimed ==
  fx.handler \in {"dragover", "drop"} =>
    IF fx.input.node \in {"block", "inline"}
      THEN /\ Count(fx.trace, "preventDefault") = 1
           /\ Calls(fx.trace, "dropEffect") = <<Eff("dropEffect", "move", <<>>, <<>>)>>
           /\ fx.ret = "true"
           /\ Count(fx.trace, "next") = 0
      ELSE /\ Count(fx.trace, "next") = 1
           /\ Count(fx.trace, "preventDefault") = 0
           /\ Count(fx.trace, "dropEffect") = 0

\* C8's case: a drag-over whose payload is an inline node was claimed.
C8_Witness ==
  /\ fx.handler = "dragover"
  /\ fx.input.node = "inline"
  /\ fx.ret = "true"
  /\ Count(fx.trace, "next") = 0

\* The key combination of the event is the platform's modifier and Enter, and
\* nothing else.
IsModEnter(e) ==
  /\ e.key = "Enter" /\ ~e.altKey /\ ~e.shiftKey
  /\ IF e.isApple THEN e.metaKey /\ ~e.ctrlKey ELSE e.ctrlKey /\ ~e.metaKey

\* The key combination of the event is Escape, and nothing else.
IsEscape(e) ==
  e.key = "Escape" /\ ~e.altKey /\ ~e.shiftKey /\ ~e.metaKey /\ ~e.ctrlKey

\* C9: on every key-down, the fullscreen toggle is called (once, the default
\* cancelled, next() not called) if and only if the key combination is
\* modifier+Enter, or Escape while the fullscreen flag is set; in every other
\* case the toggle is not called, the event is not cancelled and next() is
\* called once.
C9_ToggleOnModEnterOrEscapeInFullscreen ==
  fx.handler = "keydown" =>
    IF IsModEnter(fx.input) \/ (IsEscape(fx.input) /\ fullscreen)
      THEN /\ Count(fx.trace, "onToggleFullScreen") = 1
           /\ Count(fx.trace, "preventDefault") = 1
           /\ Count(fx.trace, "next") = 0
      ELSE /\ Count(fx.trace, "onToggleFullScreen") = 0
           /\ Count(fx.trace, "preventDefault") = 0
           /\ Count(fx.trace, "next") = 1

\* C9's case: Escape was pressed outside fullscreen and went to next().
C9_Witness ==
  /\ fx.handler = "keydown"
  /\ IsEscape(fx.input)
  /\ ~fullscreen
  /\ Count(fx.trace, "next") = 1
  /\ Count(fx.trace, "onToggleFullScreen") = 0

\* The markers the last renderNode handed to the view of its node.
Attached == Calls(fx.trace, "render")[1].ops

\* renderNode attached that marker.
IsAttached(m) == \E i \in 1..Len(Attached) : Attached[i] = m

\* C10 as stated: a marker whose path is exactly [{_key:X}] is attached by
\* renderNode to the node with key X, and to no other node.
C10_BlockMarkerAttachedToItsNode ==
  (fx.handler = "renderNode" /\ fx.thrown = "") =>
    \A i \in 1..Len(markers) :
      (Len(markers[i].path) = 1 /\ markers[i].path[1].kind = "key") =>
        (IsAttached(markers[i]) <=> markers[i].path[1].v = fx.input.key)

\* C10 as amended: a marker whose path is exactly [{_key:X}] is attached by
\* renderNode to no node: not to the node with key X (a content block or a block
\* object is always given an empty marker list), and not to any other node.
C10_BlockMarkerAttachedToNoNode ==
  (fx.handler = "renderNode" /\ fx.thrown = "") =>
    \A i \in 1..Len(markers) :
      (Len(markers[i].path) = 1 /\ markers[i].path[1].kind = "key") =>
        ~IsAttached(markers[i])

\* C10's case: the content block B1 was rendered with a marker of path
\* [{_key: B1}], and no marker was attached.
C10_Witness ==
  /\ fx.handler = "renderNode"
  /\ fx.input.key = "B1"
  /\ fx.input.type = "contentBlock"
  /\ \E i \in 1..Len(markers) : markers[i].path = <<Key("B1")>>
  /\ fx.thrown = ""
  /\ Attached = <<>>

\* The last renderNode rendered a span, with the block it lives in.
RenderedSpan ==
  /\ fx.handler = "renderNode"
  /\ fx.input.type = "span"
  /\ fx.thrown = ""

\* The block the rendered node lives in.
ParentOfRendered == getParent(editorValue.document, fx.input.key)

\* The marker's path is [{_key: parent block key}, "children", {_key: span key}].
AddressesSpan(m, block, span) ==
  m.path = <<Key(block.key), Field("children"), Key(span.dkey)>>

\* The marker's path is [{_key: parent block key}, "markDefs", {_key: A}] for an
\* annotation A the span carries.
AddressesCarriedAnnotation(m, block, span) ==
  \E i \in 1..Len(span.annotations) :
    m.path = <<Key(block.key), Field("markDefs"), Key(span.annotations[i]._key)>>

\* C11: the markers renderNode attaches to a span are exactly the markers whose
\* path addresses this span, [parent block, "children", {_key: span key}],
\* together with the markers whose path is [{_key: parent block key}, "markDefs",
\* {_key: A}] for an annotation A the span carries; no other marker is attached.
C11_SpanMarkersAreItsOwnAndItsAnnotations ==
  RenderedSpan =>
    \A i \in 1..Len(markers) :
      IsAttached(markers[i]) <=>
        \/ AddressesSpan(markers[i], ParentOfRendered, fx.input)
        \/ AddressesCarriedAnnotation(markers[i], ParentOfRendered, fx.input)

\* The handlers a trace enters, in order.
Entered(trace) == [i \in 1..Count(trace, "enter") |-> Calls(trace, "enter")[i].sig]

\* handlePaste claims the paste of the last paste event: an interceptor is
\* configured and returns a result with an insert payload.
HandlePasteClaims ==
  /\ (onPasteProp \/ parts.onPasteFromPart)
  /\ fx.input.result.kind = "result"
  /\ fx.input.result.insert # NoValue

\* C12: the handlers of a paste event run in the order of their registration and
\* the first to stop the chain wins: handlePaste is entered first, the
\* PastePlugin only after handlePaste called next(), and whenever handlePaste
\* claims the paste (an insert result, next() not called) neither the
\* PastePlugin nor any later handler runs for that event.
C12_ClaimedPasteNeverReachesPastePlugin ==
  fx.handler = "pasteEvent" =>
    /\ Entered(fx.trace)[1] = "handlePaste"
    /\ HandlePasteClaims =>
         /\ Entered(fx.trace) = <<"handlePaste">>
         /\ Count(fx.trace, "PastePlugin") = 0
         /\ Count(fx.trace, "default") = 0
         /\ Count(fx.trace, "next") = 0
    /\ \A i \in 1..Len(fx.trace) :
         fx.trace[i].op = "PastePlugin" =>
           \E j \in 1..(i - 1) : \E k \in 1..(j - 1) :
             /\ fx.trace[j].op = "next"
             /\ fx.trace[k] = Eff("enter", "handlePaste", <<>>, <<>>)

\* C12's case: handlePaste claimed a paste event that the PastePlugin would
\* have claimed too, and the PastePlugin did not run.
C12_Witness ==
  /\ fx.handler = "pasteEvent"
  /\ HandlePasteClaims
  /\ fx.input.pluginClaims
  /\ Count(fx.trace, "onPatch") = 1
  /\ Count(fx.trace, "PastePlugin") = 0

\* The interceptor of the last paste returned nothing, or a result without an
\* insert payload.
NoInsertPayload(result) ==
  \/ result.kind = "null"
  \/ result.kind = "result" /\ result.insert = NoValue

\* C13: for a paste with an interceptor configured whose result is empty or has
\* no insert payload, the loading callback receives 'start' then null, the
\* patch sink receives no operation, and next() is called exactly once, after
\* the null signal.
C13_PasteWithoutPayloadFallsThrough ==
  (PastedWithInterceptor /\ NoInsertPayload(fx.input))
  => /\ Signals(fx.trace) = <<"start", "null">>
     /\ Count(fx.trace, "onPatch") = 0
     /\ Count(fx.trace, "next") = 1
     /\ fx.trace[Len(fx.trace)].op = "next"
     /\ \A i \in 1..Len(fx.trace) :
          fx.trace[i].op = "onLoading" => i < Len(fx.trace)
     /\ fx.thrown = ""
     /\ loading = "null"

\* C13's case: an interceptor was called and returned a result with a path and
\* no insert payload, and the paste went to next() after the null signal.
C13_Witness ==
  /\ PastedWithInterceptor
  /\ fx.input.kind = "result" /\ fx.input.insert = NoValue /\ fx.input.hasPath
  /\ Count(fx.trace, "onPaste") = 1
  /\ fx.trace[Len(fx.trace)].op = "next"
  /\ fx.trace[Len(fx.trace) - 1] = Eff("onLoading", "null", <<>>, <<>>)

\* The focus path is the single segment {_key: K}.
IsSingleSegment(fp) == Len(fp) = 1 /\ fp[1].kind = "key"

\* The focus path is the single segment of the block the editor's focus is in.
IsFocusedBlock(fp, ev) ==
  /\ IsSingleSegment(fp)
  /\ ev.focusBlock # NoNode
  /\ fp[1].v = ev.focusBlock.key

\* C14 as stated: trackFocusPath brings a node into view for the paths
\* [block, "children", child] and [block, "markDefs", annotation] only: a
\* single-segment path, be it the focused block or a plain block key, in the
\* document or not, brings nothing into view and raises no error.
C14_SingleSegmentPathScrollsNothing ==
  (Tracked /\ IsSingleSegment(focusPath))
  => Scrolled(fx.trace) = <<>> /\ fx.thrown = ""

\* C14 as amended: for a single-segment path, trackFocusPath raises no error,
\* and brings nothing into view when the path is the focused block or its key
\* is absent from the document; a plain block key that is in the document and
\* is not the focused block brings that block into view, exactly once.
C14_PlainBlockKeyScrollsToBlock ==
  (Tracked /\ IsSingleSegment(focusPath))
  => /\ fx.thrown = ""
     /\ Scrolled(fx.trace) =
          IF IsFocusedBlock(focusPath, editorValue) THEN <<>>
          ELSE IF InDocument(editorValue.document, focusPath[1].v)
            THEN <<focusPath[1].v>>
          ELSE <<>>

\* C14's case: trackFocusPath ran on the key of block B2 of the document while
\* the editor's focus was in block B1, and B2 was brought into view.
C14_Witness ==
  /\ Tracked
  /\ focusPath = <<Key("B2")>>
  /\ editorValue.focusBlock.key = "B1"
  /\ InDocument(editorValue.document, "B2")
  /\ Scrolled(fx.trace) = <<"B2">>

\* The other half of C14's case: trackFocusPath ran on the focused block.
C14_WitnessFocusedBlock ==
  /\ Tracked
  /\ IsFocusedBlock(focusPath, editorValue)
  /\ fx.trace = <<>>

\* The last handler was handlePaste and it took its insert branch.
TookInsertBranch ==
  /\ PastedWithInterceptor
  /\ fx.input.kind = "result"
  /\ fx.input.insert # NoValue

\* A handler of the editing surface, or a lifecycle hook, left it unchanged:
\* the persisted value array is the one the host gave.
C15_ValueUnchanged == [][value' = value]_vars

\* Only the insert branch of handlePaste hands a patch event to onPatch.
C15_PatchOnlyFromInsertBranch ==
  Count(fx.trace, "onPatch") > 0 => (TookInsertBranch /\ Count(fx.trace, "onPatch") = 1)

\* C15: no handler of the editing surface (handleChange, handlePaste, handleCopy,
\* handleDrag, handleToggleFullscreen, trackFocusPath) changes the persisted
\* value array, after any sequence of events, and a patch event is handed to
\* onPatch from the insert branch of handlePaste only.
C15_ValueLeavesOnlyAsPatch ==
  C15_ValueUnchanged /\ []C15_PatchOnlyFromInsertBranch

\* C15's case: handlePaste took its insert branch with persisted blocks in the
\* value prop, and handed one patch event to onPatch.
C15_Witness ==
  /\ TookInsertBranch
  /\ value = <<Block("B1"), Block("B2")>>
  /\ Count(fx.trace, "onPatch") = 1

\* The decorators of the registry with that name.
DecoratorsNamed(type) == {i \in 1..Len(decorators) : decorators[i].value = type}

\* C16: for every mark name and registry of decorators, renderMark returns the
\* decorator's own view when a decorator with that name exists and supplies
\* one, the generic Decorator view when a decorator with that name exists
\* without a view of its own, and null, without an error, when no decorator
\* with that name is registered.
C16_MarkRenderedByItsDecorator ==
  fx.handler = "renderMark" =>
    LET named == DecoratorsNamed(fx.input.type)
    IN /\ fx.thrown = ""
       /\ IF \E i \in named : decorators[i].blockEditor = "render"
            THEN /\ fx.ret = "CustomComponent"
                 /\ fx.trace = <<Eff("render", "CustomComponent", <<>>,
                                     <<Key(fx.input.type)>>)>>
          ELSE IF named # {}
            THEN /\ fx.ret = "Decorator"
                 /\ fx.trace = <<Eff("render", "Decorator", <<>>, <<>>)>>
          ELSE fx.ret = "null" /\ fx.trace = <<>>

\* C16's case: a mark was rendered whose decorator is registered, after
\* another, and has a blockEditor object without a view of its own.
C16_Witness ==
  /\ fx.handler = "renderMark"
  /\ Len(decorators) = 2
  /\ decorators[2] = Decorator(fx.input.type, "object")
  /\ fx.ret = "Decorator"

\* The other cases of C16: a mark with no decorator, and one with a view of its own.
C16_WitnessUnknownMark ==
  /\ fx.handler = "renderMark"
  /\ decorators # <<>>
  /\ DecoratorsNamed(fx.input.type) = {}
  /\ fx.ret = "null"

\* What is seen of a change: onChange is entered first and once, and onFocus
\* is called at most once, after it, and only if onChange was given the callback.
C17_OnChangeOnceThenFocus ==
  fx.handler = "change" =>
    /\ Len(fx.trace) >= 1
    /\ fx.trace[1].op = "onChange"
    /\ Count(fx.trace, "onChange") = 1
    /\ Count(fx.trace, "onFocus") <= 1
    /\ Count(fx.trace, "onFocus") = 1 =>
         /\ fx.trace[1].sig = "callback"
         /\ fx.trace[2] = Eff("onFocus", "", <<>>, fx.trace[1].path)

\* handleChange itself calls onChange and nothing else: an onFocus call comes
\* in a later step, of the host that was handed the callback of that change.
C17_FocusCalledByTheHost ==
  [][(fx'.handler = "change" /\ Count(fx'.trace, "onFocus") > 0)
     => /\ fx.handler = "change"
        /\ fx.input = fx'.input
        /\ fx.trace = <<Eff("onChange", "callback", <<>>, fx.trace[1].path)>>
        /\ fx'.trace = Append(fx.trace, Eff("onFocus", "", <<>>, fx.trace[1].path))]_vars

\* C17: handleChange calls onChange exactly once per change and never calls
\* onFocus itself; the focus report is handed to onChange as a callback, so an
\* onFocus call for a change comes only after onChange was entered for that
\* change, and at most once per change when the host runs the callback at most
\* once.
C17_FocusReportedThroughOnChange ==
  []C17_OnChangeOnceThenFocus /\ C17_FocusCalledByTheHost

\* C17's case: handleChange handed the callback to onChange, and the host then
\* ran it: onFocus was called once, after onChange.
C17_Witness ==
  /\ fx.handler = "change"
  /\ Len(fx.trace) = 2
  /\ fx.trace[1].op = "onChange" /\ fx.trace[1].sig = "callback"
  /\ fx.trace[2].op = "onFocus"

\* The last handler was one the engine calls with (event, editor, next).
HandledAnEvent == fx.handler \in {"paste", "copy", "dragover", "drop", "keydown"}

\* How many of the effects by which a handler claims its event a trace holds:
\* a patch, a cancelled default, the toggle callback, the copy interceptor.
ClaimingEffects(trace) ==
  Count(trace, "onPatch") + Count(trace, "preventDefault")
  + Count(trace, "onToggleFullScreen") + Count(trace, "onCopy")

\* The handler handed the event on: next() was its one and last call, and the
\* handler returned what next() returned.
Delegated ==
  /\ Count(fx.trace, "next") = 1
  /\ fx.trace[Len(fx.trace)].op = "next"
  /\ fx.ret = "next"

\* The handler claimed the event: it returned a result of its own and never
\* called next().
Claimed ==
  /\ Count(fx.trace, "next") = 0
  /\ fx.ret \in {"insert", "onCopy", "true"}
  /\ ClaimingEffects(fx.trace) > 0

C18_WitnessThrown ==
  /\ fx.handler = "paste"
  /\ fx.input.kind = "throw"
  /\ fx.thrown # ""
  /\ ~Claimed /\ ~Delegated

C18_WitnessDelegated ==
  /\ fx.handler = "keydown"
  /\ fx.input.key = "a"
  /\ Delegated

\* C19: for an empty focus path, neither the mount of the editing surface nor
\* any update raises an error or brings a node into view: componentDidMount and
\* trackFocusPath treat an empty path as componentDidUpdate does, as nothing
\* to resolve.
C19_EmptyPathIsNothingToResolve ==
  (fx.handler \in {"mount", "update"} /\ focusPath = <<>>)
  => fx.thrown = "" /\ Scrolled(fx.trace) = <<>>

\* C20: renderNode raises no error because of the shape of a marker's path: for
\* every node, a span that carries annotations included, and every list of
\* markers, those with a path of zero, one or two segments included, the
\* attachment of markers completes, and no marker with so short a path is
\* attached to a span or an inline object.
C20_ShortMarkerPathsAreHarmless ==
  fx.handler = "renderNode" =>
    /\ fx.thrown = ""
    /\ fx.input.object = "inline" =>
         \A i \in 1..Len(markers) :
           Len(markers[i].path) <= 2 => ~IsAttached(markers[i])

====
